---- MODULE Spec2Model ----
(***************************************************************************)
(* Quiz / conversation state machine of the chat endpoint                  *)
(* (backend/app/main.py: chat) together with the tables it reads and       *)
(* writes: conversations_rce, conversations, quiz_session, quiz_questions, *)
(* and the background summarisation task (ConvoSummerizer.summerize).      *)
(*                                                                         *)
(* Every awaited database statement of the handler is one step, so that    *)
(* overlapping requests interleave exactly where the event loop can switch *)
(* between them.  The LLM calls are synchronous and are taken together     *)
(* with the code that follows them up to the next await.                   *)
(***************************************************************************)
EXTENDS Integers, Sequences, FiniteSets, TLC

VARIABLES conversations_rce, conversations, quiz_session, quiz_questions,
          pc, req, response

(* The LTI endpoints (api/lti.py, api/lti_dashboard.py, api/lti_rce.py):  *)
(* MemoryService._lti_storage and _lti_sessions, the table user_sessions, *)
(* the clock in minutes, and the LTI requests being processed.            *)
VARIABLES lti_storage, lti_sessions, user_sessions, now,
          lti_pc, lti_req, lti_response, served, validated, lookup

chat_vars == <<conversations_rce, conversations, quiz_session, quiz_questions,
               pc, req, response>>

lti_vars == <<lti_storage, lti_sessions, user_sessions, now,
              lti_pc, lti_req, lti_response, served, validated, lookup>>

vars == <<conversations_rce, conversations, quiz_session, quiz_questions,
          pc, req, response,
          lti_storage, lti_sessions, user_sessions, now,
          lti_pc, lti_req, lti_response, served, validated, lookup>>

----------------------------------------------------------------------------
(* Bounds of the model *)

MaxRows == 3
MaxQuizSessions == 2
MaxLegacyRows == 1
MaxLtiRequests == 2

(* Request slots: two requests can be in flight at once. *)
Procs == {"r1", "r2"}

Sessions == {"s1", "s2"}
(* "m1" is a message of one line; "m2" stands for one of two lines. *)
Messages == {"m1", "m2"}
Answers == {"a1"}

----------------------------------------------------------------------------
(* Values *)

NULL == "null"
NULL_ID == 0
QUIZ_LEN == 5
HISTORY_LIMIT == 100
RECENT == 3
PASS_SCORE == 3
APOLOGY == "sorry, I could not process your request at this time. Please try again later."

Difficulties == {"easy", "medium", "hard"}
Scores == {3, 4}
(* question_id of a quiz-evaluation reply: the first or the last question. *)
QuestionIdsOfReply == {1, QUIZ_LEN}
NO_SCORE == -1

NoRecord == [id |-> NULL_ID, session_id |-> NULL, quiz_active |-> FALSE,
             quiz_session_id |-> NULL_ID]
NoTask == [scheduled |-> FALSE, response |-> NULL, evaluation |-> NULL,
           quiz_session_id |-> NULL_ID, quiz_active |-> FALSE]
NoResponse == [status |-> 0, body |-> NULL]

(* The locals of one run of chat(). *)
NoRequest == [session_id |-> NULL, message |-> NULL, backed |-> FALSE,
              user_record |-> NoRecord, quiz_difficulty |-> NULL,
              branch |-> NULL, answer |-> NULL, user_score |-> NO_SCORE,
              quiz_questions |-> <<>>, quiz_session_id |-> NULL_ID,
              quiz_missing |-> FALSE, next_question |-> 0, task |-> NoTask,
              error |-> NULL, inserted |-> NULL_ID,
              exists |-> FALSE, history |-> <<>>, summary |-> NULL,
              quiz_active |-> FALSE, question_id |-> 0, recent |-> <<>>]

----------------------------------------------------------------------------
(* Tables *)

(* conversations_rce: the id is a serial and the timestamp is the insertion *)
(* time, so a row's position in the sequence is both.                       *)
Row(session_id, message_from, message, evaluation, qsid, quiz_active) ==
    [session_id |-> session_id, message_from |-> message_from, message |-> message,
     evaluation |-> evaluation, quiz_session_id |-> qsid, quiz_active |-> quiz_active]

RowIds(session_id) ==
    {i \in 1..Len(conversations_rce) : conversations_rce[i].session_id = session_id}

SetMax(S) == CHOOSE x \in S : \A y \in S : y <= x

create(row) == Append(conversations_rce, row)

(* SELECT ... WHERE session_id = :s ORDER BY timestamp DESC LIMIT 1: the id *)
(* of the latest row of the session, NULL_ID when there is none.            *)
LatestId(session_id) ==
    IF RowIds(session_id) = {} THEN NULL_ID ELSE SetMax(RowIds(session_id))

get_by_session_id(session_id) ==
    IF LatestId(session_id) = NULL_ID THEN <<>>
    ELSE <<[id |-> LatestId(session_id), session_id |-> session_id,
            quiz_active |-> conversations_rce[LatestId(session_id)].quiz_active,
            quiz_session_id |-> conversations_rce[LatestId(session_id)].quiz_session_id]>>

(* The ids of S in ascending order. *)
Ascending(S) ==
    LET InS(i) == i \in S
    IN  IF S = {} THEN <<>> ELSE SelectSeq([i \in 1..SetMax(S) |-> i], InS)

(* SELECT CASE WHEN message_from IN ('user', 'human') THEN 'user' ELSE 'ai'  *)
(* END AS from_field, message ... WHERE session_id = :s ORDER BY timestamp   *)
(* ASC LIMIT 100                                                             *)
format_conversations_for_chatbot(session_id) ==
    LET ids == Ascending(RowIds(session_id))
        n == IF Len(ids) < HISTORY_LIMIT THEN Len(ids) ELSE HISTORY_LIMIT
    IN  [k \in 1..n |->
            [from_field |-> IF conversations_rce[ids[k]].message_from \in {"user", "human"}
                            THEN "user" ELSE "ai",
             message |-> conversations_rce[ids[k]].message]]

(* if len(history) > 3: history = history[-3:], the "Recent Messages" of *)
(* the tutoring prompt.                                                  *)
recent_messages(history) ==
    IF Len(history) > RECENT
    THEN SubSeq(history, Len(history) - RECENT + 1, Len(history))
    ELSE history

(* The summary column: None on the user turn the handler inserts, the text  *)
(* of the summary LLM on the AI turns the background task inserts.          *)
summary_of(row) == IF row.message_from = "ai" THEN "summary" ELSE NULL

(* SELECT summary ... WHERE session_id = :s AND summary IS NOT NULL AND      *)
(* summary != '' ORDER BY timestamp DESC LIMIT 1                             *)
get_latest_summary(session_id) ==
    LET summarised == {i \in RowIds(session_id) : summary_of(conversations_rce[i]) # NULL}
    IN  IF summarised = {} THEN NULL
        ELSE summary_of(conversations_rce[SetMax(summarised)])

(* The other conversation table, written by the /lti chat flow. *)
LegacyIds(session_id) ==
    {i \in 1..Len(conversations) : conversations[i] = session_id}

LegacyLatestId(session_id) ==
    IF LegacyIds(session_id) = {} THEN NULL_ID ELSE SetMax(LegacyIds(session_id))

(* UPDATE conversations_rce SET quiz_active = :q WHERE id = (latest row of  *)
(* the session in conversations_rce).                                       *)
update_quiz_active_status(session_id, quiz_active) ==
    IF LatestId(session_id) = NULL_ID THEN conversations_rce
    ELSE [conversations_rce EXCEPT ![LatestId(session_id)].quiz_active = quiz_active]

(* UPDATE conversations_rce SET evaluation, quiz_session_id, quiz_active     *)
(* WHERE id = (SELECT id FROM conversations WHERE session_id = :s ORDER BY   *)
(* timestamp DESC LIMIT 1): the id is looked up in the table conversations,  *)
(* and the row of conversations_rce that carries this id is updated; no row  *)
(* is updated when the subquery is empty or no row has that id.              *)
EvaluationTarget(session_id) == LegacyLatestId(session_id)

update_user_evaluation_and_quiz_session_by_session_id(session_id, evaluation, qsid, quiz_active) ==
    IF EvaluationTarget(session_id) \in 1..Len(conversations_rce)
    THEN [conversations_rce EXCEPT ![EvaluationTarget(session_id)] =
            [@ EXCEPT !.evaluation = evaluation, !.quiz_session_id = qsid,
                      !.quiz_active = quiz_active]]
    ELSE conversations_rce

(* quiz_questions rows of one quiz session, ORDER BY question_number ASC. *)
QuestionIds(qsid) ==
    {i \in 1..Len(quiz_questions) : quiz_questions[i].quiz_session_id = qsid}

(* Variant: the WHERE clause without the session. *)
get_latest_quiz_session_id_AnySession(session_id) ==
    LET passed == {i \in 1..Len(conversations_rce) : conversations_rce[i].evaluation = "passed"}
    IN  IF passed = {} THEN NULL_ID ELSE conversations_rce[SetMax(passed)].quiz_session_id

(* SELECT quiz_session_id ... WHERE session_id = :s AND evaluation =        *)
(* 'passed' ORDER BY timestamp DESC LIMIT 1                                 *)
get_latest_quiz_session_id(session_id) ==
    LET passed == {i \in RowIds(session_id) : conversations_rce[i].evaluation = "passed"}
    IN  IF passed = {} THEN NULL_ID ELSE conversations_rce[SetMax(passed)].quiz_session_id

FirstQuestion(qsid) ==
    CHOOSE i \in QuestionIds(qsid) :
        \A j \in QuestionIds(qsid) :
            \/ quiz_questions[i].question_number < quiz_questions[j].question_number
            \/ (quiz_questions[i].question_number = quiz_questions[j].question_number /\ i <= j)

get_difficulty_by_quiz_session_id(qsid) ==
    IF QuestionIds(qsid) = {} THEN "easy"
    ELSE IF quiz_questions[FirstQuestion(qsid)].difficulty = "easy" THEN "medium"
    ELSE "hard"

----------------------------------------------------------------------------
(* Replies of the LLM *)

Question(n, d, complete) == [question_number |-> n, difficulty |-> d, complete |-> complete]

(* The array the prompt asks for: five questions numbered 1..5 of one difficulty. *)
QuizOf(d) == [n \in 1..QUIZ_LEN |-> Question(n, d, TRUE)]

(* Arrays the handler accepts without looking at them: one question short,  *)
(* and one whose third question lacks a required key.                       *)
ShortQuiz == SubSeq(QuizOf("easy"), 1, QUIZ_LEN - 1)
BrokenQuiz == [QuizOf("easy") EXCEPT ![3].complete = FALSE]

OneQuestion == SubSeq(QuizOf("easy"), 1, 1)

QuizArrays == {QuizOf(d) : d \in Difficulties} \cup {ShortQuiz, BrokenQuiz, <<>>}

----------------------------------------------------------------------------
(* Lines of a message. *)
Lines(text) == IF text = "m2" THEN 2 ELSE 1

(* detect_language(request.message), called before the handler's try block: *)
(* fasttext's predict takes one line at a time and raises ValueError on a   *)
(* text that holds a newline.                                               *)
detect_language(text) == IF Lines(text) > 1 THEN "ValueError" ELSE "english"

(* An exception that leaves chat(): the server answers 500. *)
unhandled(exc) == [status |-> 500, body |-> "Internal Server Error"]

(* The except clause of chat(): every exception, the HTTPException raised   *)
(* for an unparsable reply included, becomes the apology string.            *)
chat_except(exc) == [status |-> 200, body |-> APOLOGY]

(* Variant: the pass mark compared with >= instead of >. *)
Passed_AtLeast(user_score) == user_score >= PASS_SCORE

(* if response_data.get('user_score') > 3 *)
Passed(user_score) == user_score > PASS_SCORE

(* Variant: the handler ends without returning the answer. *)
Returned_Nothing(answer) == [status |-> 200, body |-> NULL]

Returned(answer) == [status |-> 200, body |-> answer]

(* Variant: the quiz is kept active whatever the reply says. *)
Task_KeptActive(answer, evaluation, qsid, quiz_active) ==
    [scheduled |-> TRUE, response |-> answer, evaluation |-> evaluation,
     quiz_session_id |-> qsid, quiz_active |-> TRUE]

(* Variants: the task is scheduled without the quiz session id, or with *)
(* quiz_active = False.                                                 *)
Task_NoQuizSession(answer, evaluation, qsid, quiz_active) ==
    [scheduled |-> TRUE, response |-> answer, evaluation |-> evaluation,
     quiz_session_id |-> NULL_ID, quiz_active |-> quiz_active]

Task_Inactive(answer, evaluation, qsid, quiz_active) ==
    [scheduled |-> TRUE, response |-> answer, evaluation |-> evaluation,
     quiz_session_id |-> qsid, quiz_active |-> FALSE]

(* add_task(summary_creator.summerize, None, message, answer, summary,    *)
(* session_id, evaluation, quiz_session_id, quiz_active, ...)             *)
Task(answer, evaluation, qsid, quiz_active) ==
    [scheduled |-> TRUE, response |-> answer, evaluation |-> evaluation,
     quiz_session_id |-> qsid, quiz_active |-> quiz_active]

InFlight(p) == pc[p] # "idle"

(* Rows inserted by the requests of the run; rows that were in the table *)
(* before carry the earlier messages "m0" and "a0".                      *)
Inserted ==
    Cardinality({i \in 1..Len(conversations_rce) :
                    conversations_rce[i].message \in Messages \cup Answers})

(* Rows a request may still insert, for the bound on the table. *)
Needed(session_id) == IF RowIds(session_id) = {} THEN 2 ELSE 1

Reserved(p) ==
    IF ~InFlight(p) \/ ~req[p].backed \/ pc[p] = "done" THEN 0
    ELSE IF pc[p] = "create" THEN 2
    ELSE IF pc[p] = "exists" THEN Needed(req[p].session_id)
    ELSE 1

RECURSIVE SumReserved(_)
SumReserved(S) ==
    IF S = {} THEN 0
    ELSE LET p == CHOOSE x \in S : TRUE IN Reserved(p) + SumReserved(S \ {p})

StartingQuiz == Cardinality({p \in Procs : pc[p] = "create_quiz_session"})

----------------------------------------------------------------------------
(* LTI: values *)
LtiProcs == {"l1", "l2"}

(* generate_nonce() values: the state of an OIDC initiation, and its nonce. *)
States == {"st1"}
NONCE == "n1"
CLIENT == "c1"
USER == "u1"

(* An id_token signed by the platform, or one with the same claims and *)
(* another signature; None when the request carries none.              *)
Tokens == {NULL, "valid", "forged"}

Launches == {"/lti/launch", "/lti_dashboard/launch"}
Callbacks == {"/lti/oidc/callback", "/lti_dashboard/oidc/callback"}
LAUNCH_RCE == "/lti/launch_rce"
Initiations == {"/lti/oidc", "/lti_dashboard/oidc"}

(* timedelta(minutes=5), timedelta(hours=24), in minutes *)
STATE_TTL == 5
SESSION_TTL == 1440

(* The instants at which something happens: the start, and the last *)
(* minute and the minute after the lifetime of a state and of a      *)
(* session that were created at the start.                           *)
Instants == {0, STATE_TTL, STATE_TTL + 1, SESSION_TTL, SESSION_TTL + 1}

(* f"oidc_state_{state}" and f"oidc_state_dashboard_{state}" *)
stored_state_key(endpoint, state) ==
    <<IF endpoint \in {"/lti/oidc", "/lti/oidc/callback", "/lti/launch"}
      THEN "oidc_state_" ELSE "oidc_state_dashboard_", state>>

StorageKeys == {"oidc_state_", "oidc_state_dashboard_"} \X States

NoValue == [state |-> NULL, nonce |-> NULL, client_id |-> NULL, timestamp |-> -1]

NoLtiRequest == [id |-> 0, endpoint |-> NULL, state |-> NULL, id_token |-> NULL,
                 client_id |-> NULL, error |-> FALSE, nonce |-> NULL,
                 message_type |-> NULL, state_valid |-> FALSE, verified |-> "none",
                 session_token |-> 0]

NoLookup == [session_token |-> 0, at |-> -1, returned |-> FALSE, expires_at |-> -1]

(* MemoryService: the dict _lti_storage *)
get_lti_storage(key) == lti_storage[key]

store_lti_storage(key, value) == [lti_storage EXCEPT ![key] = value]

delete_lti_storage(key) == [lti_storage EXCEPT ![key] = NoValue]

(* Variant: the limit is taken in hours. *)
state_expired_Hours(stored) == now - stored.timestamp > STATE_TTL * 60

(* datetime.now() - state_timestamp > timedelta(minutes=5) *)
state_expired(stored) == now - stored.timestamp > STATE_TTL

(* A state was generated once it is stored or has passed a validation. *)
Issued(state) ==
    \E key \in StorageKeys :
        key[2] = state /\ (lti_storage[key] # NoValue \/ validated[key] > 0)

(* Variant: the signature is not checked. *)
verify_lti_request_Unsigned(id_token, client_id) ==
    id_token # NULL /\ client_id = CLIENT

(* jwt.decode(id_token, key, algorithms=['RS256'], audience=client_id) with *)
(* the keys of the platform.                                               *)
verify_lti_request(id_token, client_id) ==
    id_token = "valid" /\ client_id = CLIENT

(* lti_service_rce: jwt.decode(id_token, options={"verify_signature": False}) *)
(* and the checks of the claims.                                             *)
validate_id_token(id_token) == id_token \in {"valid", "forged"}

(* session_token = str(uuid.uuid4()): the number of the request stands for *)
(* it; created_at = utcnow(), expires_at = utcnow() + 24 h.                *)
create_lti_session(session_token) ==
    [session_token |-> session_token, user_id |-> USER,
     created_at |-> now, expires_at |-> now + SESSION_TTL]

(* MemoryService: the dict _lti_sessions, a function of the tokens stored. *)
store_lti_session(session_token, session_data) ==
    [t \in DOMAIN lti_sessions \cup {session_token} |->
        IF t = session_token THEN session_data ELSE lti_sessions[t]]

Expired(session_data) == session_data.expires_at < now

(* Variant: the session is returned whatever its expires_at. *)
get_lti_session_Unchecked(session_token) ==
    IF session_token \notin DOMAIN lti_sessions
    THEN [session_token |-> session_token, at |-> now, returned |-> FALSE,
          expires_at |-> -1]
    ELSE [session_token |-> session_token, at |-> now, returned |-> TRUE,
          expires_at |-> lti_sessions[session_token].expires_at]

(* What get_lti_session returns, with the time of the call. *)
get_lti_session(session_token) ==
    IF session_token \notin DOMAIN lti_sessions
    THEN [session_token |-> session_token, at |-> now, returned |-> FALSE,
          expires_at |-> -1]
    ELSE IF Expired(lti_sessions[session_token])
    THEN [session_token |-> session_token, at |-> now, returned |-> FALSE,
          expires_at |-> lti_sessions[session_token].expires_at]
    ELSE [session_token |-> session_token, at |-> now, returned |-> TRUE,
          expires_at |-> lti_sessions[session_token].expires_at]

(* The LTI state of a process that has just started. *)
LtiInit ==
    /\ lti_storage = [key \in StorageKeys |-> NoValue]
    /\ lti_sessions = <<>>
    /\ user_sessions = {}
    /\ now = 0
    /\ lti_pc = [p \in LtiProcs |-> "idle"]
    /\ lti_req = [p \in LtiProcs |-> NoLtiRequest]
    /\ lti_response = [p \in LtiProcs |-> NoResponse]
    /\ served = 0
    /\ validated = [key \in StorageKeys |-> 0]
    /\ lookup = NoLookup

----------------------------------------------------------------------------
Init ==
    /\ conversations_rce = <<>>
    /\ conversations = <<>>
    /\ quiz_session = 0
    /\ quiz_questions = <<>>
    /\ pc = [p \in Procs |-> "idle"]
    /\ req = [p \in Procs |-> NoRequest]
    /\ response = [p \in Procs |-> NoResponse]
    /\ LtiInit

(* No other request is being processed; requests that do not overlap all *)
(* use the first slot.                                                   *)
Serial(p) == p = "r1" /\ \A q \in Procs \ {p} : pc[q] = "idle"

(* Variant: a request is accepted only while no other is being processed. *)
Chat_Start_Locked(p, S, overlap) ==
    /\ pc[p] = "idle"
    /\ Serial(p)
    /\ \E s \in S, m \in Messages, backed \in BOOLEAN :
        LET r == [NoRequest EXCEPT !.session_id = s, !.message = m, !.backed = backed]
        IN  IF detect_language(m) = "ValueError"
            THEN /\ req' = [req EXCEPT ![p] = [r EXCEPT !.error = "ValueError"]]
                 /\ response' = [response EXCEPT ![p] = unhandled("ValueError")]
                 /\ pc' = [pc EXCEPT ![p] = "done"]
            ELSE /\ backed => Inserted + SumReserved(Procs \ {p}) + Needed(s) <= MaxRows
                 /\ req' = [req EXCEPT ![p] = r]
                 /\ pc' = [pc EXCEPT ![p] = IF backed THEN "exists" ELSE "plain"]
                 /\ UNCHANGED response
    /\ UNCHANGED <<conversations_rce, conversations, quiz_session, quiz_questions>>
    /\ UNCHANGED lti_vars

(* POST /api/v1/chat arrives, for a session of S; overlap says whether it *)
(* may arrive while another request is inside the handler.                *)
Chat_Start(p, S, overlap) ==
    /\ pc[p] = "idle"
    /\ overlap \/ Serial(p)
    /\ \E s \in S, m \in Messages, backed \in BOOLEAN :
        LET r == [NoRequest EXCEPT !.session_id = s, !.message = m, !.backed = backed]
        IN  IF detect_language(m) = "ValueError"
            THEN /\ req' = [req EXCEPT ![p] = [r EXCEPT !.error = "ValueError"]]
                 /\ response' = [response EXCEPT ![p] = unhandled("ValueError")]
                 /\ pc' = [pc EXCEPT ![p] = "done"]
            ELSE /\ backed => Inserted + SumReserved(Procs \ {p}) + Needed(s) <= MaxRows
                 /\ req' = [req EXCEPT ![p] = r]
                 /\ pc' = [pc EXCEPT ![p] = IF backed THEN "exists" ELSE "plain"]
                 /\ UNCHANGED response
    /\ UNCHANGED <<conversations_rce, conversations, quiz_session, quiz_questions>>
    /\ UNCHANGED lti_vars

(* exists = await conversation_repo.get_by_session_id(...) *)
Chat_Exists(p) ==
    /\ pc[p] = "exists"
    /\ req' = [req EXCEPT ![p].exists = get_by_session_id(req[p].session_id) # <<>>]
    /\ pc' = [pc EXCEPT ![p] =
                IF get_by_session_id(req[p].session_id) = <<>> THEN "create" ELSE "load"]
    /\ UNCHANGED <<conversations_rce, conversations, quiz_session, quiz_questions,
                   response>>
    /\ UNCHANGED lti_vars

(* Variant: the history is read after the user turn was inserted. *)
Chat_CreateUser_History(p) ==
    /\ pc[p] = "create"
    /\ conversations_rce' = create(Row(req[p].session_id, "user", req[p].message,
                                       NULL, NULL_ID, FALSE))
    /\ req' = [req EXCEPT ![p].user_record =
                 [id |-> Len(conversations_rce) + 1, session_id |-> req[p].session_id,
                  quiz_active |-> FALSE, quiz_session_id |-> NULL_ID],
                          ![p].history = <<[from_field |-> "user", message |-> req[p].message]>>,
                          ![p].summary = NULL]
    /\ pc' = [pc EXCEPT ![p] = "difficulty"]
    /\ UNCHANGED <<conversations, quiz_session, quiz_questions, response>>
    /\ UNCHANGED lti_vars

(* First request of a session: the user turn is inserted and is the        *)
(* user_record; history and summary keep their initial [] and None.        *)
Chat_CreateUser(p) ==
    /\ pc[p] = "create"
    /\ conversations_rce' = create(Row(req[p].session_id, "user", req[p].message,
                                       NULL, NULL_ID, FALSE))
    /\ req' = [req EXCEPT ![p].user_record =
                 [id |-> Len(conversations_rce) + 1, session_id |-> req[p].session_id,
                  quiz_active |-> FALSE, quiz_session_id |-> NULL_ID],
                          ![p].history = <<>>,
                          ![p].summary = NULL]
    /\ pc' = [pc EXCEPT ![p] = "difficulty"]
    /\ UNCHANGED <<conversations, quiz_session, quiz_questions, response>>
    /\ UNCHANGED lti_vars

(* Variant: the latest turn is read only once the background tasks of the *)
(* session's earlier requests are over.                                   *)
Chat_Load_Settled(p) ==
    /\ pc[p] = "load"
    /\ \A q \in Procs \ {p} :
          ~(pc[q] = "summerize" /\ req[q].session_id = req[p].session_id)
    /\ req' = [req EXCEPT ![p].summary = get_latest_summary(req[p].session_id),
                          ![p].history = format_conversations_for_chatbot(req[p].session_id),
                          ![p].user_record = get_by_session_id(req[p].session_id)[1]]
    /\ pc' = [pc EXCEPT ![p] = "difficulty"]
    /\ UNCHANGED <<conversations_rce, conversations, quiz_session, quiz_questions,
                   response>>
    /\ UNCHANGED lti_vars

(* Later requests: the latest turn of the session is the user_record. *)
Chat_Load(p) ==
    /\ pc[p] = "load"
    /\ req' = [req EXCEPT ![p].summary = get_latest_summary(req[p].session_id),
                          ![p].history = format_conversations_for_chatbot(req[p].session_id),
                          ![p].user_record = get_by_session_id(req[p].session_id)[1]]
    /\ pc' = [pc EXCEPT ![p] = "difficulty"]
    /\ UNCHANGED <<conversations_rce, conversations, quiz_session, quiz_questions,
                   response>>
    /\ UNCHANGED lti_vars

Chat_Difficulty(p) ==
    /\ pc[p] = "difficulty"
    /\ req' = [req EXCEPT ![p].quiz_difficulty =
                 get_difficulty_by_quiz_session_id(
                     get_latest_quiz_session_id(req[p].user_record.session_id))]
    /\ pc' = [pc EXCEPT ![p] = IF req[p].user_record.quiz_active THEN "quiz" ELSE "tutor"]
    /\ UNCHANGED <<conversations_rce, conversations, quiz_session, quiz_questions,
                   response>>
    /\ UNCHANGED lti_vars

(* The handler has left its body: the locals that nothing reads any more *)
(* are dropped.                                                          *)
Ended(r) == [r EXCEPT !.quiz_difficulty = NULL, !.quiz_questions = <<>>,
                      !.next_question = 0, !.quiz_missing = FALSE,
                      !.history = <<>>, !.summary = NULL]

(* An exception reaches the except clause: the request ends without a *)
(* background task.                                                   *)
Raise(p, exc, r) ==
    /\ req' = [req EXCEPT ![p] = [Ended(r) EXCEPT !.error = exc]]
    /\ response' = [response EXCEPT ![p] = chat_except(exc)]
    /\ pc' = [pc EXCEPT ![p] = "done"]

(* return answer, with the summarisation task scheduled. *)
Return(p, r, task) ==
    /\ req' = [req EXCEPT ![p] = [Ended(r) EXCEPT !.task = task]]
    /\ response' = [response EXCEPT ![p] = Returned(r.answer)]
    /\ pc' = [pc EXCEPT ![p] = "summerize"]

(* No page_content / module_context: one LLM call, nothing is stored. *)
Chat_Plain(p) ==
    /\ pc[p] = "plain"
    /\ \E parsable \in BOOLEAN, answer \in Answers :
        /\ IF parsable
           THEN /\ req' = [req EXCEPT ![p].answer = answer]
                /\ response' = [response EXCEPT ![p] = Returned(answer)]
                /\ pc' = [pc EXCEPT ![p] = "done"]
           ELSE Raise(p, "HTTPException", req[p])
    /\ UNCHANGED <<conversations_rce, conversations, quiz_session, quiz_questions>>
    /\ UNCHANGED lti_vars

(* quiz_active branch: the quiz-evaluation prompt, the reply                *)
(* {response, quiz_active, question_id, user_score} and what follows it up  *)
(* to the next await.                                                       *)
Chat_Quiz(p) ==
    /\ pc[p] = "quiz"
    /\ \E parsable \in BOOLEAN, answer \in Answers, quiz_active \in BOOLEAN,
          question_id \in QuestionIdsOfReply, user_score \in Scores \cup {NO_SCORE} :
        LET r == [req[p] EXCEPT !.answer = answer, !.user_score = user_score,
                                !.quiz_active = quiz_active, !.question_id = question_id]
            qsid == req[p].user_record.quiz_session_id
        IN  IF ~parsable THEN Raise(p, "HTTPException", req[p])
            ELSE IF quiz_active
            THEN Return(p, [r EXCEPT !.branch = "continue"],
                        Task(answer, "Progress", qsid, TRUE))
            ELSE IF user_score = NO_SCORE
            THEN Raise(p, "TypeError", [r EXCEPT !.branch = "end"])
            ELSE IF Passed(user_score)
            THEN Return(p, [r EXCEPT !.branch = "passed"],
                        Task(answer, "passed", qsid, FALSE))
            ELSE /\ req' = [req EXCEPT ![p] = [r EXCEPT !.branch = "failed"]]
                 /\ pc' = [pc EXCEPT ![p] = "mark_failed"]
                 /\ UNCHANGED response
    /\ UNCHANGED <<conversations_rce, conversations, quiz_session, quiz_questions>>
    /\ UNCHANGED lti_vars

(* user_score <= 3: the awaited update, then the task and the answer. *)
Chat_MarkFailed(p) ==
    /\ pc[p] = "mark_failed"
    /\ conversations_rce' = update_user_evaluation_and_quiz_session_by_session_id(
                                req[p].user_record.session_id, "failed",
                                req[p].user_record.quiz_session_id, FALSE)
    /\ Return(p, req[p], Task(req[p].answer, "failed",
                              req[p].user_record.quiz_session_id, FALSE))
    /\ UNCHANGED <<conversations, quiz_session, quiz_questions>>
    /\ UNCHANGED lti_vars

(* Not in a quiz: the tutoring prompt and the reply                     *)
(* {answer, wants_quiz, spoken_language, quiz}.                         *)
Chat_Tutor(p, Q) ==
    /\ pc[p] = "tutor"
    /\ \E parsable \in BOOLEAN, answer \in Answers, wants_quiz \in BOOLEAN,
          quiz \in Q, quiz_missing \in BOOLEAN :
        LET r == [req[p] EXCEPT !.answer = answer,
                                !.recent = recent_messages(req[p].history)]
        IN  IF ~parsable THEN Raise(p, "HTTPException", req[p])
            ELSE IF ~wants_quiz
            THEN Return(p, [r EXCEPT !.branch = "idle"],
                        Task(answer, NULL, NULL_ID, FALSE))
            ELSE /\ quiz_session + StartingQuiz < MaxQuizSessions
                 /\ quiz_missing => quiz = CHOOSE q \in Q : TRUE
                 /\ req' = [req EXCEPT ![p] =
                              [r EXCEPT !.branch = "start", !.quiz_questions = quiz,
                                        !.quiz_missing = quiz_missing]]
                 /\ pc' = [pc EXCEPT ![p] = "create_quiz_session"]
                 /\ UNCHANGED response
    /\ UNCHANGED <<conversations_rce, conversations, quiz_session, quiz_questions>>
    /\ UNCHANGED lti_vars

(* INSERT INTO quiz_session; len(quiz_questions) in the log line that   *)
(* follows raises when the reply has no quiz array.                     *)
Chat_CreateQuizSession(p) ==
    /\ pc[p] = "create_quiz_session"
    /\ quiz_session' = quiz_session + 1
    /\ LET r == [req[p] EXCEPT !.quiz_session_id = quiz_session + 1]
       IN  IF req[p].quiz_missing
           THEN Raise(p, "TypeError", r)
           ELSE /\ req' = [req EXCEPT ![p] = r]
                /\ pc' = [pc EXCEPT ![p] = "set_quiz_active"]
                /\ UNCHANGED response
    /\ UNCHANGED <<conversations_rce, conversations, quiz_questions>>
    /\ UNCHANGED lti_vars

Chat_SetQuizActive(p) ==
    /\ pc[p] = "set_quiz_active"
    /\ conversations_rce' = update_quiz_active_status(req[p].session_id, TRUE)
    /\ pc' = [pc EXCEPT ![p] = "set_progress"]
    /\ UNCHANGED <<conversations, quiz_session, quiz_questions, req, response>>
    /\ UNCHANGED lti_vars

(* What the handler does when it reaches question number n of the array: *)
(* past the end it schedules the task and returns; a question without a  *)
(* required key raises; otherwise create_question is awaited.            *)
QuestionLoop(p, r, n) ==
    IF n > Len(r.quiz_questions)
    THEN Return(p, r, Task(r.answer, NULL, r.quiz_session_id, TRUE))
    ELSE IF ~r.quiz_questions[n].complete
    THEN Raise(p, "KeyError", r)
    ELSE /\ req' = [req EXCEPT ![p] = [r EXCEPT !.next_question = n]]
         /\ pc' = [pc EXCEPT ![p] = "create_question"]
         /\ UNCHANGED response

(* The call passes no quiz_active, so the default False is written. *)
Chat_SetProgress(p) ==
    /\ pc[p] = "set_progress"
    /\ conversations_rce' = update_user_evaluation_and_quiz_session_by_session_id(
                                req[p].session_id, "Progress", req[p].quiz_session_id, FALSE)
    /\ QuestionLoop(p, req[p], 1)
    /\ UNCHANGED <<conversations, quiz_session, quiz_questions>>
    /\ UNCHANGED lti_vars

(* Variant: the insert is left uncommitted, to be undone when the request fails. *)
create_question_Uncommitted(q, qsid) == quiz_questions

(* INSERT INTO quiz_questions ... ; commit *)
create_question(q, qsid) ==
    Append(quiz_questions, [quiz_session_id |-> qsid, question_number |-> q.question_number,
                            difficulty |-> q.difficulty])

Chat_CreateQuestion(p) ==
    /\ pc[p] = "create_question"
    /\ quiz_questions' = create_question(req[p].quiz_questions[req[p].next_question],
                                         req[p].quiz_session_id)
    /\ QuestionLoop(p, req[p], req[p].next_question + 1)
    /\ UNCHANGED <<conversations_rce, conversations, quiz_session>>
    /\ UNCHANGED lti_vars

(* Variant: a failure of the task reaches the request, which then answers *)
(* with the apology.                                                     *)
Summerize_Raises(p) ==
    /\ pc[p] = "summerize"
    /\ \E failed \in BOOLEAN :
        IF failed
        THEN /\ response' = [response EXCEPT ![p] = chat_except("Exception")]
             /\ UNCHANGED <<conversations_rce, req>>
        ELSE /\ conversations_rce' =
                    create(Row(req[p].session_id, "ai", req[p].task.response,
                               req[p].task.evaluation, req[p].task.quiz_session_id,
                               req[p].task.quiz_active))
             /\ req' = [req EXCEPT ![p].inserted = Len(conversations_rce) + 1]
             /\ UNCHANGED response
    /\ pc' = [pc EXCEPT ![p] = "done"]
    /\ UNCHANGED <<conversations, quiz_session, quiz_questions>>
    /\ UNCHANGED lti_vars

(* Variant: the turn is inserted before the calls that may fail. *)
Summerize_InsertFirst(p) ==
    /\ pc[p] = "summerize"
    /\ conversations_rce' =
            create(Row(req[p].session_id, "ai", req[p].task.response,
                       req[p].task.evaluation, req[p].task.quiz_session_id,
                       req[p].task.quiz_active))
    /\ \E failed \in BOOLEAN :
        IF failed
        THEN UNCHANGED req
        ELSE req' = [req EXCEPT ![p].inserted = Len(conversations_rce) + 1]
    /\ pc' = [pc EXCEPT ![p] = "done"]
    /\ UNCHANGED <<conversations, quiz_session, quiz_questions, response>>
    /\ UNCHANGED lti_vars

(* The background task, run after the response was sent.  The summary   *)
(* LLM or the embedding call may raise: the task logs it and inserts    *)
(* nothing.  Otherwise it inserts the AI turn.                          *)
Summerize(p) ==
    /\ pc[p] = "summerize"
    /\ \E failed \in BOOLEAN :
        IF failed
        THEN UNCHANGED <<conversations_rce, req>>
        ELSE /\ conversations_rce' =
                    create(Row(req[p].session_id, "ai", req[p].task.response,
                               req[p].task.evaluation, req[p].task.quiz_session_id,
                               req[p].task.quiz_active))
             /\ req' = [req EXCEPT ![p].inserted = Len(conversations_rce) + 1]
    /\ pc' = [pc EXCEPT ![p] = "done"]
    /\ UNCHANGED <<conversations, quiz_session, quiz_questions, response>>
    /\ UNCHANGED lti_vars

(* The request and its background task are over: the slot is free again. *)
Chat_Finish(p) ==
    /\ pc[p] = "done"
    /\ pc' = [pc EXCEPT ![p] = "idle"]
    /\ req' = [req EXCEPT ![p] = NoRequest]
    /\ response' = [response EXCEPT ![p] = NoResponse]
    /\ UNCHANGED <<conversations_rce, conversations, quiz_session, quiz_questions>>
    /\ UNCHANGED lti_vars

(* The /lti chat flow inserts a turn into the table conversations. *)
Legacy_Create ==
    /\ Len(conversations) < MaxLegacyRows
    /\ \E s \in Sessions : conversations' = Append(conversations, s)
    /\ UNCHANGED <<conversations_rce, quiz_session, quiz_questions, pc, req, response>>
    /\ UNCHANGED lti_vars

(* A finished request is looked at once and then forgotten, before anything *)
(* else happens.                                                            *)
Finishing == \E p \in Procs : pc[p] = "done"

(* Requests processed one after another, for one session, over all replies. *)
Next ==
    \/ \E p \in Procs : Chat_Finish(p)
    \/ \E p \in Procs : ~Finishing /\ Chat_Start(p, {"s1"}, FALSE)
    \/ \E p \in Procs : ~Finishing /\ Chat_Exists(p)
    \/ \E p \in Procs : ~Finishing /\ Chat_CreateUser(p)
    \/ \E p \in Procs : ~Finishing /\ Chat_Load(p)
    \/ \E p \in Procs : ~Finishing /\ Chat_Difficulty(p)
    \/ \E p \in Procs : ~Finishing /\ Chat_Plain(p)
    \/ \E p \in Procs : ~Finishing /\ Chat_Quiz(p)
    \/ \E p \in Procs : ~Finishing /\ Chat_MarkFailed(p)
    \/ \E p \in Procs : ~Finishing /\ Chat_Tutor(p, QuizArrays)
    \/ \E p \in Procs : ~Finishing /\ Chat_CreateQuizSession(p)
    \/ \E p \in Procs : ~Finishing /\ Chat_SetQuizActive(p)
    \/ \E p \in Procs : ~Finishing /\ Chat_SetProgress(p)
    \/ \E p \in Procs : ~Finishing /\ Chat_CreateQuestion(p)
    \/ \E p \in Procs : ~Finishing /\ Summerize(p)
    \/ ~Finishing /\ Legacy_Create

Spec == Init /\ [][Next]_vars

(* Requests for one session that arrive while another request, or its  *)
(* background task, is still running; the table conversations holds no *)
(* row.                                                                *)
RaceNext ==
    \/ \E p \in Procs : Chat_Finish(p)
    \/ \E p \in Procs : ~Finishing /\ Chat_Start(p, {"s1"}, TRUE)
    \/ \E p \in Procs : ~Finishing /\ Chat_Exists(p)
    \/ \E p \in Procs : ~Finishing /\ Chat_CreateUser(p)
    \/ \E p \in Procs : ~Finishing /\ Chat_Load(p)
    \/ \E p \in Procs : ~Finishing /\ Chat_Difficulty(p)
    \/ \E p \in Procs : ~Finishing /\ Chat_Plain(p)
    \/ \E p \in Procs : ~Finishing /\ Chat_Quiz(p)
    \/ \E p \in Procs : ~Finishing /\ Chat_MarkFailed(p)
    \/ \E p \in Procs : ~Finishing /\ Chat_Tutor(p, {OneQuestion})
    \/ \E p \in Procs : ~Finishing /\ Chat_CreateQuizSession(p)
    \/ \E p \in Procs : ~Finishing /\ Chat_SetQuizActive(p)
    \/ \E p \in Procs : ~Finishing /\ Chat_SetProgress(p)
    \/ \E p \in Procs : ~Finishing /\ Chat_CreateQuestion(p)
    \/ \E p \in Procs : ~Finishing /\ Summerize(p)

RaceSpec == Init /\ [][RaceNext]_vars

----------------------------------------------------------------------------
(* Sessions with a past.  The tables start as earlier requests left them:  *)
(* a session whose first request ("m0", answered "a0") started a quiz and  *)
(* whose second request passed it holds the user turn, flagged by the quiz *)
(* start, the AI turn of the start and the AI turn of the pass.            *)
PassedQuizTurns(session_id, qsid) ==
    <<Row(session_id, "user", "m0", NULL, NULL_ID, TRUE),
      Row(session_id, "ai", "a0", NULL, qsid, TRUE),
      Row(session_id, "ai", "a0", "passed", qsid, FALSE)>>

(* The quiz_questions rows a quiz start stores for the array quiz. *)
StoredQuestions(quiz, qsid) ==
    [n \in 1..Len(quiz) |->
        [quiz_session_id |-> qsid, question_number |-> quiz[n].question_number,
         difficulty |-> quiz[n].difficulty]]

(* The first quiz of a session is asked for with the target 'easy'; the    *)
(* array of the reply is stored as it comes, an empty one included.        *)
FirstQuizArrays == {QuizOf("easy"), <<>>}

Histories ==
    {[rows |-> <<>>, quiz_session |-> 0, questions |-> <<>>]}
    \cup {[rows |-> PassedQuizTurns(s, 1), quiz_session |-> 1,
           questions |-> StoredQuestions(quiz, 1)] :
             s \in Sessions, quiz \in FirstQuizArrays}
    \cup UNION {{[rows |-> PassedQuizTurns(s, 1) \o PassedQuizTurns(t, 2), quiz_session |-> 2,
                  questions |-> StoredQuestions(QuizOf("easy"), 1) \o StoredQuestions(quiz, 2)] :
                    t \in Sessions \ {s}, quiz \in FirstQuizArrays} : s \in Sessions}

HistoryInit ==
    /\ \E h \in Histories :
        /\ conversations_rce = h.rows
        /\ quiz_session = h.quiz_session
        /\ quiz_questions = h.questions
    /\ conversations = <<>>
    /\ pc = [p \in Procs |-> "idle"]
    /\ req = [p \in Procs |-> NoRequest]
    /\ response = [p \in Procs |-> NoResponse]
    /\ LtiInit

(* Replies whose quiz has the difficulty the prompt asked for, or no *)
(* question at all.                                                  *)
QuizAsAsked(p) ==
    IF req[p].quiz_difficulty \in Difficulties
    THEN {QuizOf(req[p].quiz_difficulty), <<>>}
    ELSE {<<>>}

(* Requests for either session, one after another. *)
HistoryNext ==
    \/ \E p \in Procs : Chat_Finish(p)
    \/ \E p \in Procs : ~Finishing /\ Chat_Start(p, Sessions, FALSE)
    \/ \E p \in Procs : ~Finishing /\ Chat_Exists(p)
    \/ \E p \in Procs : ~Finishing /\ Chat_CreateUser(p)
    \/ \E p \in Procs : ~Finishing /\ Chat_Load(p)
    \/ \E p \in Procs : ~Finishing /\ Chat_Difficulty(p)
    \/ \E p \in Procs : ~Finishing /\ Chat_Plain(p)
    \/ \E p \in Procs : ~Finishing /\ Chat_Quiz(p)
    \/ \E p \in Procs : ~Finishing /\ Chat_MarkFailed(p)
    \/ \E p \in Procs : ~Finishing /\ Chat_Tutor(p, QuizAsAsked(p))
    \/ \E p \in Procs : ~Finishing /\ Chat_CreateQuizSession(p)
    \/ \E p \in Procs : ~Finishing /\ Chat_SetQuizActive(p)
    \/ \E p \in Procs : ~Finishing /\ Chat_SetProgress(p)
    \/ \E p \in Procs : ~Finishing /\ Chat_CreateQuestion(p)
    \/ \E p \in Procs : ~Finishing /\ Summerize(p)

HistorySpec == HistoryInit /\ [][HistoryNext]_vars

----------------------------------------------------------------------------
(* Long sessions.  A session of n turns that never had a quiz: the user    *)
(* turn of its first request and the AI turn of each of its n - 1 answered *)
(* requests; the message of turn k is written "k".                         *)
LongSession(session_id, n) ==
    [k \in 1..n |->
        Row(session_id, IF k = 1 THEN "user" ELSE "ai", ToString(k), NULL, NULL_ID, FALSE)]

(* Lengths around the number of turns the prompt takes and around the *)
(* limit of the history query.                                        *)
SessionLengths ==
    (0..(RECENT + 2)) \cup ((HISTORY_LIMIT - 2)..(HISTORY_LIMIT + 2))

LongInit ==
    /\ \E n \in SessionLengths : conversations_rce = LongSession("s1", n)
    /\ conversations = <<>>
    /\ quiz_session = 0
    /\ quiz_questions = <<>>
    /\ pc = [p \in Procs |-> "idle"]
    /\ req = [p \in Procs |-> NoRequest]
    /\ response = [p \in Procs |-> NoResponse]
    /\ LtiInit

(* Requests for the session, one after another. *)
LongNext ==
    \/ \E p \in Procs : Chat_Finish(p)
    \/ \E p \in Procs : ~Finishing /\ Chat_Start(p, {"s1"}, FALSE)
    \/ \E p \in Procs : ~Finishing /\ Chat_Exists(p)
    \/ \E p \in Procs : ~Finishing /\ Chat_CreateUser(p)
    \/ \E p \in Procs : ~Finishing /\ Chat_Load(p)
    \/ \E p \in Procs : ~Finishing /\ Chat_Difficulty(p)
    \/ \E p \in Procs : ~Finishing /\ Chat_Plain(p)
    \/ \E p \in Procs : ~Finishing /\ Chat_Quiz(p)
    \/ \E p \in Procs : ~Finishing /\ Chat_MarkFailed(p)
    \/ \E p \in Procs : ~Finishing /\ Chat_Tutor(p, {OneQuestion})
    \/ \E p \in Procs : ~Finishing /\ Chat_CreateQuizSession(p)
    \/ \E p \in Procs : ~Finishing /\ Chat_SetQuizActive(p)
    \/ \E p \in Procs : ~Finishing /\ Chat_SetProgress(p)
    \/ \E p \in Procs : ~Finishing /\ Chat_CreateQuestion(p)
    \/ \E p \in Procs : ~Finishing /\ Summerize(p)

LongSpec == LongInit /\ [][LongNext]_vars

----------------------------------------------------------------------------
(* The LTI endpoints.  Between the lookup of a pending state and its      *)
(* deletion a handler awaits nothing that suspends it, so that part of a  *)
(* request is one step; the insert into user_sessions is awaited and is a *)
(* step of its own.                                                       *)

(* raise HTTPException(status_code, detail) reaching the client. *)
HTTPError(p, r, status_code, detail) ==
    /\ lti_req' = [lti_req EXCEPT ![p] = r]
    /\ lti_response' = [lti_response EXCEPT ![p] = [status |-> status_code, body |-> detail]]
    /\ lti_pc' = [lti_pc EXCEPT ![p] = "done"]

LtiReply(p, r, status_code, body) ==
    /\ lti_req' = [lti_req EXCEPT ![p] = r]
    /\ lti_response' = [lti_response EXCEPT ![p] = [status |-> status_code, body |-> body]]
    /\ lti_pc' = [lti_pc EXCEPT ![p] = "done"]

LtiFinishing == \E p \in LtiProcs : lti_pc[p] = "done"

(* GET|POST /lti/oidc and /lti_dashboard/oidc: a fresh state is stored with *)
(* its nonce, the client id and the time.                                   *)
Oidc_Initiate ==
    /\ \E endpoint \in Initiations, state \in States :
        /\ ~Issued(state)
        /\ lti_storage' = store_lti_storage(stored_state_key(endpoint, state),
                              [state |-> state, nonce |-> NONCE, client_id |-> CLIENT,
                               timestamp |-> now])
    /\ UNCHANGED <<lti_sessions, user_sessions, now, lti_pc, lti_req, lti_response,
                   served, validated, lookup>>
    /\ UNCHANGED chat_vars

(* Variant: a launch without state is refused. *)
lti_launch_StateRequired(p, r) ==
    IF r.state = NULL
    THEN /\ HTTPError(p, r, 400, "Invalid state parameter")
         /\ UNCHANGED <<lti_storage, validated, lti_sessions>>
    ELSE LET key == stored_state_key(r.endpoint, r.state)
             stored == get_lti_storage(key)
         IN  IF stored = NoValue
             THEN /\ HTTPError(p, r, 400, "Invalid state parameter")
                  /\ UNCHANGED <<lti_storage, validated, lti_sessions>>
             ELSE IF state_expired(stored)
             THEN /\ HTTPError(p, r, 400, "State parameter expired")
                  /\ UNCHANGED <<lti_storage, validated, lti_sessions>>
             ELSE LET r1 == [r EXCEPT !.state_valid = TRUE]
                  IN  /\ lti_storage' = delete_lti_storage(key)
                      /\ validated' = [validated EXCEPT ![key] = @ + 1]
                      /\ IF r.id_token = NULL
                         THEN /\ HTTPError(p, r1, 400, "Missing id_token parameter")
                              /\ UNCHANGED lti_sessions
                         ELSE IF ~verify_lti_request(r.id_token, stored.client_id)
                         THEN /\ HTTPError(p, [r1 EXCEPT !.verified = "invalid"], 400,
                                           "Invalid LTI token")
                              /\ UNCHANGED lti_sessions
                         ELSE /\ lti_sessions' = store_lti_session(r.id, create_lti_session(r.id))
                              /\ lti_req' = [lti_req EXCEPT ![p] =
                                               [r1 EXCEPT !.verified = "valid",
                                                          !.session_token = r.id]]
                              /\ lti_pc' = [lti_pc EXCEPT ![p] = "create_session"]
                              /\ UNCHANGED lti_response

(* lti_launch and lti_launch_dashboard up to store_lti_session.  With a     *)
(* state: the stored state is looked up, checked for its age and deleted;   *)
(* the HTTPException raised for an OIDC error field is raised inside the    *)
(* try whose "except Exception" logs a warning, so the handler goes on, and *)
(* the client id of the stored state is used.  Then the id_token and the    *)
(* client id are required, the token is verified, and the session is        *)
(* created and stored.                                                      *)
lti_launch(p, r) ==
    LET key == stored_state_key(r.endpoint, r.state)
        stored == IF r.state = NULL THEN NoValue ELSE get_lti_storage(key)
    IN  IF r.state # NULL /\ stored = NoValue
        THEN /\ HTTPError(p, r, 400, "Invalid state parameter")
             /\ UNCHANGED <<lti_storage, validated, lti_sessions>>
        ELSE IF r.state # NULL /\ state_expired(stored)
        THEN /\ HTTPError(p, r, 400, "State parameter expired")
             /\ UNCHANGED <<lti_storage, validated, lti_sessions>>
        ELSE LET r1 == [r EXCEPT !.state_valid = r.state # NULL]
                 client_id == IF r.state # NULL THEN stored.client_id ELSE r.client_id
             IN  /\ lti_storage' = IF r.state # NULL THEN delete_lti_storage(key)
                                                      ELSE lti_storage
                 /\ validated' = IF r.state # NULL
                                 THEN [validated EXCEPT ![key] = @ + 1] ELSE validated
                 /\ IF r.id_token = NULL
                    THEN /\ HTTPError(p, r1, 400, "Missing id_token parameter")
                         /\ UNCHANGED lti_sessions
                    ELSE IF client_id = NULL
                    THEN /\ HTTPError(p, r1, 400, "Missing client_id parameter")
                         /\ UNCHANGED lti_sessions
                    ELSE IF ~verify_lti_request(r.id_token, client_id)
                    THEN /\ HTTPError(p, [r1 EXCEPT !.verified = "invalid"], 400,
                                      "Invalid LTI token")
                         /\ UNCHANGED lti_sessions
                    ELSE /\ lti_sessions' = store_lti_session(r.id, create_lti_session(r.id))
                         /\ lti_req' = [lti_req EXCEPT ![p] =
                                          [r1 EXCEPT !.verified = "valid",
                                                     !.session_token = r.id]]
                         /\ lti_pc' = [lti_pc EXCEPT ![p] = "create_session"]
                         /\ UNCHANGED lti_response

(* POST /lti/launch, POST /lti_dashboard/launch *)
Lti_Launch(p) ==
    /\ lti_pc[p] = "idle"
    /\ served < MaxLtiRequests
    /\ \E endpoint \in Launches, state \in {NULL} \cup States, id_token \in Tokens,
          client_id \in {NULL, CLIENT}, error \in BOOLEAN :
        /\ error => state # NULL
        /\ lti_launch(p, [NoLtiRequest EXCEPT !.id = served + 1, !.endpoint = endpoint,
                                              !.state = state, !.id_token = id_token,
                                              !.client_id = client_id, !.error = error])
    /\ served' = served + 1
    /\ UNCHANGED <<user_sessions, now, lookup>>
    /\ UNCHANGED chat_vars

(* The welcome turn of a user without rows in conversations; its session *)
(* id is a fresh random string.                                          *)
WELCOME == "welcome"

ensure_user_exists_with_welcome_message ==
    IF \E i \in 1..Len(conversations) : conversations[i] = WELCOME
    THEN conversations
    ELSE Append(conversations, WELCOME)

(* await repo2.create_session(user_id, session_token) and the rest of the *)
(* launch; a failing statement ends the request with 500.                 *)
Lti_CreateSession(p) ==
    /\ lti_pc[p] = "create_session"
    /\ \E inserted \in BOOLEAN :
        IF inserted
        THEN /\ user_sessions' = user_sessions \cup
                    {[user_id |-> USER, session_id |-> lti_req[p].session_token]}
             /\ conversations' = IF lti_req[p].endpoint = "/lti/launch"
                                 THEN ensure_user_exists_with_welcome_message
                                 ELSE conversations
             /\ LtiReply(p, lti_req[p], 200, "widget")
        ELSE /\ HTTPError(p, lti_req[p], 500, "LTI launch failed")
             /\ UNCHANGED <<user_sessions, conversations>>
    /\ UNCHANGED <<lti_storage, lti_sessions, now, served, validated, lookup>>
    /\ UNCHANGED <<conversations_rce, quiz_session, quiz_questions, pc, req, response>>

MessageTypes == {"LtiDeepLinkingRequest", "LtiResourceLinkRequest", "other"}

(* POST /lti/launch_rce.  An OIDC error field is answered with an error   *)
(* page.  Every HTTPException of the handler is raised inside the try     *)
(* whose only clause is "except Exception", which answers 500.  Nothing   *)
(* is stored.                                                             *)
Lti_LaunchRce(p) ==
    /\ lti_pc[p] = "idle"
    /\ served < MaxLtiRequests
    /\ \E id_token \in Tokens, error \in BOOLEAN, message_type \in MessageTypes :
        LET r == [NoLtiRequest EXCEPT !.id = served + 1, !.endpoint = LAUNCH_RCE,
                                      !.id_token = id_token, !.error = error]
        IN  IF error
            THEN message_type = "other" /\ LtiReply(p, r, 200, "LTI Tool Configuration Error")
            ELSE IF id_token = NULL
            THEN message_type = "other" /\ HTTPError(p, r, 500, "LTI launch failed")
            ELSE IF ~validate_id_token(id_token)
            THEN message_type = "other" /\ HTTPError(p, r, 500, "LTI launch failed")
            ELSE LET r1 == [r EXCEPT !.verified = "valid", !.message_type = message_type]
                 IN  IF message_type = "LtiDeepLinkingRequest"
                     THEN LtiReply(p, r1, 200, "deep linking form")
                     ELSE IF message_type = "LtiResourceLinkRequest"
                     THEN LtiReply(p, r1, 307, "/ai-tutor")
                     ELSE HTTPError(p, r1, 500, "LTI launch failed")
    /\ served' = served + 1
    /\ UNCHANGED <<lti_storage, lti_sessions, user_sessions, now, validated, lookup>>
    /\ UNCHANGED chat_vars

(* oidc_callback and oidc_callback_dashboard: the stored state is looked  *)
(* up and checked for its age, the id_token is verified, the nonce of the *)
(* payload is compared, and only then the state is deleted and the        *)
(* session created and stored.                                            *)
oidc_callback(p, r) ==
    LET key == stored_state_key(r.endpoint, r.state)
        stored == get_lti_storage(key)
    IN  IF stored = NoValue
        THEN /\ HTTPError(p, r, 400, "Invalid state parameter")
             /\ UNCHANGED <<lti_storage, validated, lti_sessions>>
        ELSE IF state_expired(stored)
        THEN /\ HTTPError(p, r, 400, "State parameter expired")
             /\ UNCHANGED <<lti_storage, validated, lti_sessions>>
        ELSE LET r1 == [r EXCEPT !.state_valid = TRUE]
             IN  /\ validated' = [validated EXCEPT ![key] = @ + 1]
                 /\ IF ~verify_lti_request(r.id_token, r.client_id)
                    THEN /\ HTTPError(p, [r1 EXCEPT !.verified = "invalid"], 401,
                                      "Invalid ID token")
                         /\ UNCHANGED <<lti_storage, lti_sessions>>
                    ELSE IF r.nonce # NULL /\ stored.nonce # r.nonce
                    THEN /\ HTTPError(p, [r1 EXCEPT !.verified = "valid"], 400,
                                      "Nonce parameter mismatch")
                         /\ UNCHANGED <<lti_storage, lti_sessions>>
                    ELSE /\ lti_storage' = delete_lti_storage(key)
                         /\ lti_sessions' = store_lti_session(r.id, create_lti_session(r.id))
                         /\ LtiReply(p, [r1 EXCEPT !.verified = "valid",
                                                   !.session_token = r.id],
                                     307, "target_link_uri")

(* POST /lti/oidc/callback, POST /lti_dashboard/oidc/callback *)
Lti_Callback(p) ==
    /\ lti_pc[p] = "idle"
    /\ served < MaxLtiRequests
    /\ \E endpoint \in Callbacks, state \in States, id_token \in Tokens \ {NULL},
          nonce \in {NULL, NONCE, "n2"} :
        oidc_callback(p, [NoLtiRequest EXCEPT !.id = served + 1, !.endpoint = endpoint,
                                              !.state = state, !.id_token = id_token,
                                              !.client_id = CLIENT, !.nonce = nonce])
    /\ served' = served + 1
    /\ UNCHANGED <<user_sessions, now, lookup>>
    /\ UNCHANGED chat_vars

(* The request is over: the slot is free again. *)
Lti_Finish(p) ==
    /\ lti_pc[p] = "done"
    /\ lti_pc' = [lti_pc EXCEPT ![p] = "idle"]
    /\ lti_req' = [lti_req EXCEPT ![p] = NoLtiRequest]
    /\ lti_response' = [lti_response EXCEPT ![p] = NoResponse]
    /\ lookup' = NoLookup
    /\ UNCHANGED <<lti_storage, lti_sessions, user_sessions, now, served, validated>>
    /\ UNCHANGED chat_vars

(* GET /lti/session/{session_token}, as every endpoint that takes a    *)
(* session_token, calls get_lti_session: an expired session is removed *)
(* and the request is refused.                                         *)
Get_Lti_Session(p) ==
    /\ lti_pc[p] = "idle"
    /\ \E session_token \in 1..MaxLtiRequests :
        /\ lookup' = get_lti_session(session_token)
        /\ lti_sessions' =
              IF session_token \in DOMAIN lti_sessions /\ Expired(lti_sessions[session_token])
              THEN [t \in DOMAIN lti_sessions \ {session_token} |-> lti_sessions[t]]
              ELSE lti_sessions
        /\ IF lookup'.returned
           THEN LtiReply(p, [NoLtiRequest EXCEPT !.endpoint = "/lti/session"], 200, "session")
           ELSE HTTPError(p, [NoLtiRequest EXCEPT !.endpoint = "/lti/session"], 404,
                          "Session not found")
    /\ UNCHANGED <<lti_storage, user_sessions, now, served, validated>>
    /\ UNCHANGED chat_vars

(* Time passes. *)
Tick ==
    /\ \A p \in LtiProcs : lti_pc[p] = "idle"
    /\ \E t \in Instants : t > now /\ now' = t
    /\ UNCHANGED <<lti_storage, lti_sessions, user_sessions, lti_pc, lti_req,
                   lti_response, served, validated, lookup>>
    /\ UNCHANGED chat_vars

LtiNext ==
    \/ \E p \in LtiProcs : Lti_Finish(p)
    \/ ~LtiFinishing /\ Oidc_Initiate
    \/ \E p \in LtiProcs : ~LtiFinishing /\ Lti_Launch(p)
    \/ \E p \in LtiProcs : ~LtiFinishing /\ Lti_CreateSession(p)
    \/ \E p \in LtiProcs : ~LtiFinishing /\ Lti_LaunchRce(p)
    \/ \E p \in LtiProcs : ~LtiFinishing /\ Lti_Callback(p)
    \/ \E p \in LtiProcs : ~LtiFinishing /\ Get_Lti_Session(p)
    \/ ~LtiFinishing /\ Tick

LtiSpec == Init /\ [][LtiNext]_vars

----------------------------------------------------------------------------
(* Properties *)

Latest(session_id) == conversations_rce[LatestId(session_id)]

(* The request of slot p has returned an answer (not the apology). *)
Answered(p) == pc[p] \in {"summerize", "done"} /\ req[p].task.scheduled

(* The request of slot p is over and its background task has inserted the AI turn. *)
Persisted(p) == pc[p] = "done" /\ req[p].inserted # NULL_ID

AiTurn(p) == conversations_rce[req[p].inserted]

QuizTablesUnchanged == quiz_session' = quiz_session /\ quiz_questions' = quiz_questions

(* The slot whose request takes the step, if any. *)
Steps(p) == pc'[p] # pc[p] \/ req'[p] # req[p]

C2_QuizStartProgress ==
    \A p \in Procs :
        (Persisted(p) /\ req[p].branch = "start") =>
            Latest(req[p].session_id).evaluation = "Progress"

(* C3: when an active quiz is ended with user_score <= 3, then at the     *)
(* moment the handler returns, before the background task has run, the    *)
(* latest row of the session has evaluation = 'failed' and                *)
(* quiz_active = false.                                                   *)
C3_FailedSynchronously ==
    \A p \in Procs :
        (pc[p] = "summerize" /\ req[p].branch = "failed") =>
            /\ Latest(req[p].session_id).evaluation = "failed"
            /\ Latest(req[p].session_id).quiz_active = FALSE

(* C4: when an active quiz is ended by a reply with quiz_active = false,   *)
(* the evaluation recorded is 'passed' if and only if user_score > 3, and  *)
(* the turn that records it has quiz_active = false and the                *)
(* quiz_session_id of the quiz that was active.                            *)
C4_Recorded(p, turn) ==
    /\ turn.evaluation = (IF req[p].user_score > 3 THEN "passed" ELSE "failed")
    /\ turn.quiz_active = FALSE
    /\ turn.quiz_session_id = req[p].user_record.quiz_session_id

C4_Ends(p) == req[p].user_record.quiz_active /\ req[p].branch \in {"passed", "failed"}

C4_EvaluationByScore ==
    [][\A p \in Procs :
        /\ (Persisted(p)' /\ C4_Ends(p)') => C4_Recorded(p, AiTurn(p))'
        /\ (pc[p] = "mark_failed" /\ pc'[p] = "summerize"
                /\ EvaluationTarget(req[p].session_id) \in 1..Len(conversations_rce)) =>
              C4_Recorded(p, conversations_rce[EvaluationTarget(req[p].session_id)])'
        /\ (Steps(p) /\ \E i \in 1..Len(conversations_rce) :
                conversations_rce'[i].evaluation # conversations_rce[i].evaluation
                /\ conversations_rce'[i].evaluation \in {"passed", "failed"}) =>
              ~(req[p].user_score > 3)]_vars

C4_Witness ==
    \E p \in Procs :
        /\ Persisted(p) /\ C4_Ends(p)
        /\ req[p].user_score = 3
        /\ AiTurn(p).evaluation = "failed"
        /\ \E i \in RowIds(req[p].session_id) : conversations_rce[i].evaluation = "passed"

(* C5: when the session is in an active quiz and the reply has             *)
(* quiz_active = true, the AI turn persisted for the request has           *)
(* evaluation = 'Progress', quiz_active = true and the quiz_session_id of  *)
(* the latest turn the request read; no quiz_session or quiz_questions row *)
(* is created or changed.                                                  *)
C5_Continues(p) == req[p].user_record.quiz_active /\ req[p].branch = "continue"

C5_QuizContinues ==
    [][\A p \in Procs :
        /\ (Persisted(p)' /\ C5_Continues(p)') =>
              /\ AiTurn(p)'.evaluation = "Progress"
              /\ AiTurn(p)'.quiz_active = TRUE
              /\ AiTurn(p)'.quiz_session_id = req'[p].user_record.quiz_session_id
              /\ AiTurn(p)'.message_from = "ai"
        /\ (Steps(p) /\ req'[p].user_record.quiz_active /\ pc'[p] # "idle") =>
              QuizTablesUnchanged]_vars

C5_Witness ==
    \E p \in Procs :
        /\ Persisted(p) /\ C5_Continues(p)
        /\ req[p].user_record.quiz_session_id # NULL_ID
        /\ LatestId(req[p].session_id) = req[p].inserted
        /\ QuestionIds(req[p].user_record.quiz_session_id) # {}

(* C6: when the session is not in a quiz and the reply has                 *)
(* wants_quiz = false, the caller receives the reply's answer, a           *)
(* summarisation task is scheduled, the AI turn persisted for the request  *)
(* has quiz_active = false and quiz_session_id = null, and no quiz_session *)
(* or quiz_questions row is created.                                       *)
C6_Idle(p) == ~req[p].user_record.quiz_active /\ req[p].branch = "idle"

C6_StaysIdle ==
    [][\A p \in Procs :
        /\ (pc'[p] = "summerize" /\ C6_Idle(p)') =>
              /\ req'[p].task.scheduled
              /\ req'[p].answer \in Answers
              /\ response'[p] = [status |-> 200, body |-> req'[p].answer]
              /\ req'[p].task.response = req'[p].answer
        /\ (Persisted(p)' /\ C6_Idle(p)') =>
              /\ AiTurn(p)'.quiz_active = FALSE
              /\ AiTurn(p)'.quiz_session_id = NULL_ID
              /\ AiTurn(p)'.message = response'[p].body
        /\ (Steps(p) /\ req'[p].branch \in {NULL, "idle"} /\ pc'[p] # "idle") =>
              QuizTablesUnchanged]_vars

C6_Witness ==
    \E p \in Procs :
        /\ Persisted(p) /\ C6_Idle(p)
        /\ LatestId(req[p].session_id) = req[p].inserted
        /\ ~Latest(req[p].session_id).quiz_active
        /\ response[p].body \in Answers

(* C7: in every reachable state, if the latest row of a session has        *)
(* quiz_active = true then its quiz_session_id is non-null and identifies  *)
(* an existing quiz_session row.                                           *)
C7_ActiveHasQuizSession ==
    \A s \in Sessions :
        (LatestId(s) # NULL_ID /\ Latest(s).quiz_active) =>
            Latest(s).quiz_session_id \in 1..quiz_session

(* C8: for every quiz session whose creating request returned an answer,   *)
(* exactly 5 quiz_questions rows exist, numbered 1, 2, 3, 4, 5, each once. *)
C8_FiveQuestions ==
    \A p \in Procs :
        (Answered(p) /\ req[p].branch = "start") =>
            /\ Cardinality(QuestionIds(req[p].quiz_session_id)) = 5
            /\ \A n \in 1..5 :
                 \E i \in QuestionIds(req[p].quiz_session_id) :
                     quiz_questions[i].question_number = n

(* C9: requests for one session that overlap are not serialised: while one *)
(* request is inside the handler, acting on the latest turn it read,       *)
(* another request for the same session is accepted and reads the same     *)
(* turn.                                                                   *)
C9_RoomFor(session_id, q) ==
    Inserted + SumReserved(Procs \ {q}) + Needed(session_id) <= MaxRows

C9_NotSerialized ==
    \A p \in Procs, q \in Procs :
        (/\ p # q
         /\ pc[p] \notin {"idle", "done", "summerize"}
         /\ pc[q] = "idle"
         /\ ~Finishing
         /\ C9_RoomFor(req[p].session_id, q)) =>
            ENABLED (Chat_Start(q, {req[p].session_id}, TRUE) /\ pc'[q] = "exists")

(* Two quiz sessions created from one latest turn; the latest turn of the  *)
(* session refers to one of them only.                                     *)
C9_Witness ==
    \E p \in Procs, q \in Procs :
        /\ p # q
        /\ Persisted(p) /\ pc[q] = "summerize"
        /\ req[p].session_id = req[q].session_id
        /\ req[p].user_record.id = req[q].user_record.id
        /\ req[p].branch = "start" /\ req[q].branch = "start"
        /\ req[p].quiz_session_id # req[q].quiz_session_id
        /\ Latest(req[p].session_id).quiz_session_id = req[p].quiz_session_id

(* C10: when the reply cannot be parsed as JSON, the request fails with an *)
(* HTTP 500 delivered to the caller.                                       *)
C10_ParseFailureIs500 ==
    \A p \in Procs :
        (pc[p] = "done" /\ req[p].error = "HTTPException") => response[p].status = 500

(* C11: whatever fails while the handler processes a request, the response  *)
(* is the fixed apology string: no exception and no error response reaches  *)
(* the client.                                                              *)
C11_FailureIsApology ==
    \A p \in Procs :
        (pc[p] = "done" /\ req[p].error # NULL) =>
            response[p] = [status |-> 200, body |-> APOLOGY]

(* C12: when a request fails after its quiz start has begun persisting,     *)
(* nothing already written is rolled back: the new quiz_session row, the    *)
(* quiz_active = true flag on the latest turn of the session and the        *)
(* questions inserted so far are all there when the request fails, and they *)
(* remain when the request has ended.  The latest turn shows the flag as    *)
(* the request's last write to it left it: true, or, where the update that  *)
(* follows the flag reached that turn, that update's values.                *)
C12_LastWrite(p, turn) ==
    \/ turn.quiz_active = TRUE
    \/ /\ turn.evaluation = "Progress"
       /\ turn.quiz_session_id = req[p].quiz_session_id
       /\ turn.quiz_active = FALSE

C12_Fails(p) == pc'[p] = "done" /\ req'[p].error # NULL /\ req'[p].branch = "start"

C16_UserTurns(session_id, message) ==
    {i \in RowIds(session_id) : /\ conversations_rce[i].message_from = "user"
                                /\ conversations_rce[i].message = message}

C16_AiTurns(session_id) ==
    {i \in RowIds(session_id) : conversations_rce[i].message_from = "ai"}

C16_TwoTurns ==
    \A p \in Procs :
        (Persisted(p) /\ req[p].backed) =>
            /\ AiTurn(p).session_id = req[p].session_id
            /\ AiTurn(p).message = response[p].body
            /\ Cardinality(C16_UserTurns(req[p].session_id, req[p].message))
                  >= Cardinality(C16_AiTurns(req[p].session_id))

(* C17: a step of the handler changes no existing conversations_rce row    *)
(* other than the latest row of the session named in the request.          *)
C17_OnlyLatestRowChanges ==
    [][\A i \in 1..Len(conversations_rce) :
        conversations_rce'[i] # conversations_rce[i] =>
            \E p \in Procs : Steps(p) /\ i = LatestId(req[p].session_id)]_vars

(* C18: when the session is in an active quiz and the reply has            *)
(* quiz_active = false, the quiz ends in that request whatever the reply's *)
(* question_id and however many questions were evaluated: the turn         *)
(* recorded for the request has quiz_active = false and an evaluation      *)
(* that user_score alone decides.                                          *)
C18_Replied(p) ==
    /\ req[p].user_record.quiz_active
    /\ req[p].branch \in {"continue", "passed", "failed"}
    /\ req[p].quiz_active = FALSE

C18_Evaluation(user_score) == IF user_score > 3 THEN "passed" ELSE "failed"

C18_TrustsReply ==
    \A p \in Procs :
        /\ (pc[p] \in {"summerize", "done"} /\ C18_Replied(p)) =>
              /\ req[p].task.scheduled
              /\ req[p].task.quiz_active = FALSE
              /\ req[p].task.evaluation = C18_Evaluation(req[p].user_score)
        /\ (Persisted(p) /\ C18_Replied(p)) =>
              /\ AiTurn(p).quiz_active = FALSE
              /\ AiTurn(p).evaluation = C18_Evaluation(req[p].user_score)
              /\ AiTurn(p).message_from = "ai"

(* A quiz of five questions ended as passed by the reply to the first      *)
(* request after its start, with question_id = 1: no question had been     *)
(* evaluated.                                                              *)
C18_Witness ==
    \E p \in Procs :
        /\ Persisted(p) /\ C18_Replied(p)
        /\ req[p].question_id = 1
        /\ req[p].user_score = 4
        /\ Cardinality(QuestionIds(req[p].user_record.quiz_session_id)) = QUIZ_LEN
        /\ \A i \in RowIds(req[p].session_id) : conversations_rce[i].evaluation # "Progress"
        /\ LatestId(req[p].session_id) = req[p].inserted
        /\ Latest(req[p].session_id).evaluation = "passed"

(* C19: a failure inside the background task stays inside it: the task is  *)
(* not run again, the request keeps the answer it returned and no error,   *)
(* and nothing is written.                                                 *)
C19_TaskFailureContained ==
    [][\A p \in Procs :
        /\ (pc[p] = "summerize" /\ pc'[p] # "summerize") =>
              /\ pc'[p] = "done"
              /\ response'[p] = response[p]
              /\ response'[p] = [status |-> 200, body |-> req[p].answer]
              /\ req'[p].error = NULL
              /\ req'[p].inserted = NULL_ID =>
                    UNCHANGED <<conversations_rce, conversations, quiz_session, quiz_questions>>
        /\ (pc[p] = "done" /\ req[p].task.scheduled /\ pc'[p] # "done") =>
              /\ pc'[p] = "idle"
              /\ UNCHANGED <<conversations_rce, conversations, quiz_session, quiz_questions>>]_vars

(* The task of a request failed: the answer stands and the session has no  *)
(* AI turn.                                                                *)
C19_Witness ==
    \E p \in Procs :
        /\ pc[p] = "done" /\ req[p].task.scheduled /\ req[p].inserted = NULL_ID
        /\ response[p].body \in Answers
        /\ RowIds(req[p].session_id) # {}
        /\ C16_AiTurns(req[p].session_id) = {}

(* C20: for a session without conversations_rce rows,                      *)
(* format_conversations_for_chatbot returns the empty list, and a request  *)
(* for the session is handled as idle: a user turn with quiz_active =      *)
(* false, quiz_session_id = null and evaluation = null is inserted, and    *)
(* the LLM is called on the tutoring path with empty history and no        *)
(* summary.                                                                *)
C20_FirstRequestIdle ==
    [][/\ \A s \in Sessions :
            RowIds(s) = {} => format_conversations_for_chatbot(s) = <<>>
       /\ \A p \in Procs :
            /\ (pc[p] = "exists" /\ pc'[p] # "exists" /\ RowIds(req[p].session_id) = {}) =>
                  /\ pc'[p] = "create"
                  /\ req'[p].exists = FALSE
            /\ (pc[p] = "create" /\ pc'[p] # "create") =>
                  /\ conversations_rce' =
                        Append(conversations_rce,
                               [session_id |-> req[p].session_id, message_from |-> "user",
                                message |-> req[p].message, evaluation |-> NULL,
                                quiz_session_id |-> NULL_ID, quiz_active |-> FALSE])
                  /\ req'[p].user_record.id = Len(conversations_rce')
                  /\ pc'[p] = "difficulty"
            /\ (pc[p] = "difficulty" /\ pc'[p] # "difficulty" /\ ~req[p].exists) =>
                  pc'[p] = "tutor"
            /\ (pc'[p] = "tutor" /\ ~req'[p].exists) =>
                  /\ req'[p].history = <<>>
                  /\ req'[p].summary = NULL
                  /\ ~req'[p].user_record.quiz_active
                  /\ req'[p].user_record.quiz_session_id = NULL_ID]_vars

(* The first request of a session is at the tutoring prompt, its user turn *)
(* the only row of the session.                                            *)
C20_Witness ==
    \E p \in Procs :
        /\ pc[p] = "tutor" /\ ~req[p].exists
        /\ RowIds(req[p].session_id) = {req[p].user_record.id}
        /\ format_conversations_for_chatbot(req[p].session_id) =
              <<[from_field |-> "user", message |-> req[p].message]>>
        /\ req[p].history = <<>>

(* C13: for every session, get_latest_quiz_session_id is null when no turn *)
(* of the session has evaluation = 'passed', and otherwise the             *)
(* quiz_session_id of the most recent passed turn of the session; the      *)
(* turns of other sessions do not count.                                   *)
C13_Own(session_id) ==
    LET OfSession(row) == row.session_id = session_id
    IN  SelectSeq(conversations_rce, OfSession)

C13_Passed(turns) == {k \in 1..Len(turns) : turns[k].evaluation = "passed"}

C13_Expected(session_id) ==
    LET turns == C13_Own(session_id)
    IN  IF C13_Passed(turns) = {} THEN NULL_ID
        ELSE turns[SetMax(C13_Passed(turns))].quiz_session_id

C14_FirstIsEasy(qsid) ==
    \E i \in QuestionIds(qsid) :
        /\ \A j \in QuestionIds(qsid) :
              quiz_questions[i].question_number <= quiz_questions[j].question_number
        /\ quiz_questions[i].difficulty = "easy"

C14_Claimed(session_id) ==
    IF C13_Passed(C13_Own(session_id)) = {} THEN "easy"
    ELSE IF C14_FirstIsEasy(C13_Expected(session_id)) THEN "medium"
    ELSE "hard"

C14_TargetDifficulty ==
    \A p \in Procs :
        pc[p] \in {"tutor", "quiz"} =>
            req[p].quiz_difficulty = C14_Claimed(req[p].session_id)

(* C15: within a session the target difficulty, the value a request of the *)
(* session computes from the tables, never decreases in the order          *)
(* easy < medium < hard.                                                   *)
C15_Rank(difficulty) ==
    IF difficulty = "easy" THEN 1 ELSE IF difficulty = "medium" THEN 2 ELSE 3

C15_Target(session_id) ==
    get_difficulty_by_quiz_session_id(get_latest_quiz_session_id(session_id))

C15_NoDowngrade ==
    [][\A s \in Sessions : C15_Rank(C15_Target(s))' >= C15_Rank(C15_Target(s))]_vars

(* C21: on the tutoring path the history placed in the prompt is the 3     *)
(* most recent turns of the session, all of them when it has fewer than 3, *)
(* whatever the length of the session.                                     *)
(* The turns of the session before the request: the user turn a first *)
(* request stores is the message being answered, not history.         *)
C21_Turns(p) ==
    LET turns == IF req[p].exists THEN C13_Own(req[p].session_id) ELSE <<>>
    IN  [k \in 1..Len(turns) |->
            [from_field |-> turns[k].message_from, message |-> turns[k].message]]

C21_MostRecent(turns) ==
    IF Len(turns) <= 3 THEN turns ELSE SubSeq(turns, Len(turns) - 2, Len(turns))

C21_RecentHistory ==
    [][\A p \in Procs :
        (pc[p] = "tutor" /\ pc'[p] # "tutor" /\ req'[p].error = NULL) =>
            req'[p].recent = C21_MostRecent(C21_Turns(p))]_vars

(* C24: the AI turn with a request's new quiz state is written by the      *)
(* background task only, after the response.  While the task of a request  *)
(* that returned a quiz-ending reply with user_score > 3 has not written,  *)
(* the latest turn still has quiz_active = true; a second request for the  *)
(* session is accepted, reads that turn and is handled as an answer to the *)
(* same quiz session.                                                      *)
C24_Window(p, q) ==
    /\ p # q
    /\ pc[p] = "summerize" /\ req[p].branch = "passed"
    /\ LatestId(req[p].session_id) = req[p].user_record.id
    /\ pc[q] = "idle" \/ req[q].session_id = req[p].session_id

(* The second request read what the first had read. *)
C24_SameTurn(p, q) == req[q].user_record = req[p].user_record

C24_StaleRead ==
    /\ \A p \in Procs :
          /\ pc[p] \notin {"summerize", "done"} => req[p].inserted = NULL_ID
          /\ pc[p] = "summerize" =>
                /\ req[p].inserted = NULL_ID
                /\ response[p] = [status |-> 200, body |-> req[p].answer]
    /\ \A p \in Procs, q \in Procs :
          C24_Window(p, q) =>
            /\ Latest(req[p].session_id).quiz_active
            /\ (pc[q] = "idle" /\ C9_RoomFor(req[p].session_id, q)) =>
                  ENABLED (Chat_Start(q, {req[p].session_id}, TRUE) /\ pc'[q] = "exists")
            /\ pc[q] = "exists" => ENABLED (Chat_Exists(q) /\ pc'[q] = "load")
            /\ pc[q] = "load" =>
                  ENABLED (/\ Chat_Load(q)
                           /\ req'[q].user_record = req[p].user_record
                           /\ req'[q].user_record.quiz_active)
            /\ (pc[q] = "difficulty" /\ C24_SameTurn(p, q)) =>
                  ENABLED (Chat_Difficulty(q) /\ pc'[q] = "quiz")
            /\ (pc[q] = "quiz" /\ C24_SameTurn(p, q)) =>
                  /\ req[q].user_record.quiz_active
                  /\ req[q].user_record.quiz_session_id = req[p].user_record.quiz_session_id

(* A request is in the quiz branch on the turn whose quiz another request *)
(* has already answered as passed.                                        *)
C24_Witness ==
    \E p \in Procs, q \in Procs :
        /\ C24_Window(p, q)
        /\ response[p].body \in Answers
        /\ req[p].task.evaluation = "passed" /\ ~req[p].task.quiz_active
        /\ pc[q] = "quiz" /\ C24_SameTurn(p, q)
        /\ req[q].user_record.quiz_session_id = req[p].user_record.quiz_session_id

(* C25: when the background task fails before its insert, no AI turn is    *)
(* written and the latest turn of the session stays as it was; after a     *)
(* quiz-ending reply with user_score > 3 the request adds no turn with     *)
(* evaluation = 'passed' for the quiz, and the latest turn, the one the    *)
(* request read, keeps quiz_active = true.                                 *)
(* The turns of a table that record a quiz as passed. *)
C25_PassedTurns(table, qsid) ==
    {i \in 1..Len(table) : table[i].evaluation = "passed" /\ table[i].quiz_session_id = qsid}

C25_TaskFailed(p) ==
    \/ pc[p] = "summerize" /\ pc'[p] = "done" /\ req'[p].inserted = NULL_ID
    \/ pc[p] = "done" /\ pc'[p] = "idle" /\ req[p].task.scheduled /\ req[p].inserted = NULL_ID

C22_MissingTokenIs400 ==
    \A p \in LtiProcs :
        (/\ lti_req[p].endpoint \in Launches \cup {LAUNCH_RCE}
         /\ lti_req[p].id_token = NULL) =>
            /\ lti_pc[p] = "done"
            /\ lti_response[p].status = 400
            /\ lti_response[p].body # NULL
            /\ lti_req[p].session_token = 0

(* C23: /lti/launch and /lti_dashboard/launch store a session in           *)
(* MemoryService and insert a user_sessions row only for a request whose   *)
(* id_token verify_lti_request reported valid; a request whose token fails *)
(* verification ends with an error and stores neither.                     *)
C23_Stored(p) ==
    \/ lti_req'[p].session_token \in DOMAIN lti_sessions' \ DOMAIN lti_sessions
    \/ \E row \in user_sessions' \ user_sessions : row.session_id = lti_req'[p].session_token

C23_VerifiedFirst ==
    [][/\ \A p \in LtiProcs :
            lti_req'[p].endpoint \in Launches =>
                /\ C23_Stored(p) =>
                      /\ lti_req'[p].id_token = "valid"
                      /\ lti_req'[p].verified = "valid"
                /\ (lti_pc[p] = "idle" /\ lti_req'[p].verified = "invalid") =>
                      /\ lti_pc'[p] = "done"
                      /\ lti_response'[p] = [status |-> 400, body |-> "Invalid LTI token"]
                      /\ lti_req'[p].session_token = 0
                      /\ lti_sessions' = lti_sessions
                      /\ user_sessions' = user_sessions
       /\ \A row \in user_sessions' \ user_sessions :
            \E p \in LtiProcs : /\ lti_req[p].endpoint \in Launches
                                /\ lti_req[p].session_token = row.session_id
                                /\ lti_req[p].verified = "valid"
                                /\ row.session_id \in DOMAIN lti_sessions]_vars

(* A launch was answered with the widget: its session is in MemoryService *)
(* and in user_sessions.                                                  *)
C23_Witness ==
    \E p \in LtiProcs :
        /\ lti_pc[p] = "done" /\ lti_req[p].endpoint \in Launches
        /\ lti_response[p].status = 200
        /\ lti_req[p].id_token = "valid"
        /\ lti_req[p].session_token \in DOMAIN lti_sessions
        /\ [user_id |-> USER, session_id |-> lti_req[p].session_token] \in user_sessions

(* C26: a pending OIDC state is used once: at most one /lti/launch or *)
(* /lti/oidc/callback request passes the validation of a stored state. *)
C26_SingleUse ==
    \A key \in StorageKeys : key[1] = "oidc_state_" => validated[key] <= 1

(* C27: a launch with a valid, unexpired state and an OIDC error field is *)
(* rejected with 400 'OIDC authentication failed'; no token is verified   *)
(* and no session is created for it.                                      *)
C27_OidcErrorRejected ==
    \A p \in LtiProcs :
        (/\ lti_req[p].endpoint \in Launches
         /\ lti_req[p].error /\ lti_req[p].state_valid) =>
            /\ lti_pc[p] = "done"
            /\ lti_response[p] = [status |-> 400, body |-> "OIDC authentication failed"]
            /\ lti_req[p].verified = "none"
            /\ lti_req[p].session_token = 0

(* C28: a /lti/launch request without state does not touch the pending   *)
(* states; with a valid id_token (and a client id) it gets a session, so *)
(* a launch needs no OIDC initiation of this tool.                       *)
C28_Launched(p) ==
    /\ lti_pc[p] = "idle" /\ lti_pc'[p] # "idle"
    /\ lti_req'[p].endpoint = "/lti/launch"
    /\ lti_req'[p].state = NULL

C28_NoStateNeeded ==
    [][\A p \in LtiProcs :
        C28_Launched(p) =>
            /\ lti_storage' = lti_storage
            /\ validated' = validated
            /\ ~lti_req'[p].state_valid
            /\ (lti_req'[p].id_token = "valid" /\ lti_req'[p].client_id = CLIENT) =>
                  /\ lti_pc'[p] = "create_session"
                  /\ lti_req'[p].session_token \in DOMAIN lti_sessions'
                  /\ lti_req'[p].session_token \notin DOMAIN lti_sessions]_vars

(* A session exists although no state was ever generated. *)
C28_Witness ==
    \E p \in LtiProcs :
        /\ lti_req[p].endpoint = "/lti/launch" /\ lti_req[p].state = NULL
        /\ lti_response[p].status = 200
        /\ lti_req[p].session_token \in DOMAIN lti_sessions
        /\ \A state \in States : ~Issued(state)

(* C29: a launch or an OIDC callback with a state stored more than 5      *)
(* minutes ago is rejected with 400 'State parameter expired' and creates *)
(* no session.                                                            *)
C29_Old(p) ==
    /\ lti_pc[p] = "idle" /\ lti_pc'[p] # "idle"
    /\ lti_req'[p].endpoint \in Launches \cup Callbacks
    /\ lti_req'[p].state # NULL
    /\ LET stored == lti_storage[stored_state_key(lti_req'[p].endpoint, lti_req'[p].state)]
       IN  stored # NoValue /\ now - stored.timestamp > 5

C29_ExpiredStateRejected ==
    [][\A p \in LtiProcs :
        C29_Old(p) =>
            /\ lti_pc'[p] = "done"
            /\ lti_response'[p] = [status |-> 400, body |-> "State parameter expired"]
            /\ lti_req'[p].session_token = 0
            /\ lti_sessions' = lti_sessions
            /\ user_sessions' = user_sessions]_vars

(* A state of minute 0 was presented at minute 6. *)
C29_Witness ==
    \E p \in LtiProcs :
        /\ lti_pc[p] = "done"
        /\ lti_response[p].body = "State parameter expired"
        /\ lti_storage[stored_state_key(lti_req[p].endpoint, lti_req[p].state)].timestamp
              = now - (STATE_TTL + 1)

(* C30: get_lti_session returns no session whose expires_at is in the    *)
(* past: the session is removed and None is returned; expires_at is 24 h *)
(* after the creation, so the token is refused from then on.             *)
C30_NoExpiredSession ==
    /\ \A t \in DOMAIN lti_sessions :
          lti_sessions[t].expires_at = lti_sessions[t].created_at + 24 * 60
    /\ lookup.returned => lookup.expires_at >= lookup.at
    /\ (lookup # NoLookup /\ lookup.expires_at # -1 /\ lookup.expires_at < lookup.at) =>
          /\ ~lookup.returned
          /\ lookup.session_token \notin DOMAIN lti_sessions
          /\ \E p \in LtiProcs : lti_response[p].status = 404

(* A session created at minute 0 was asked for at minute 24 * 60 + 1. *)
C30_Witness ==
    /\ lookup.expires_at = 24 * 60 /\ lookup.at = 24 * 60 + 1
    /\ ~lookup.returned
    /\ lookup.session_token \notin DOMAIN lti_sessions

====
